---- MODULE Spec2Model ----
(***************************************************************************)
(* IDB options pricer: a model of the front-end stores (pricerStore,       *)
(* blotterStore, connectionStore), the Add Order / recall path, the        *)
(* PriceSocket WebSocket client and the structure aggregator.              *)
(*                                                                         *)
(* Conventions                                                             *)
(*  - A JavaScript number is an integer count of thousandths (250.5 is     *)
(*    250500); the result of a parse is Num(n) or NaN.                      *)
(*  - A nullable number is a tagged value: None, or Num(n).                *)
(*  - A string that is parsed or produced by a numeric conversion is a     *)
(*    sequence of one-character strings (<<"2", ".", "5">>); every other   *)
(*    string is a TLA+ string.                                             *)
(***************************************************************************)
EXTENDS Integers, Sequences, FiniteSets, TLC

VARIABLES
  \* structure aggregator (one aggregation call)
  aggLegs, aggOut,
  \* pricerStore
  orderText, tableData, header, brokerQuote, currentStructure,
  parseError, tableError,
  underlying, structureType, stockRef, delta, brokerPrice, quoteSide, quantity,
  loading,
  \* the parseAndPrice call in flight: its position, the ParseResponse it
  \* holds, and the last HTTP reply it received
  pnp,
  \* the price requests of repriceFromTable calls in flight
  repriceCalls,
  \* blotterStore.orders of the pricer tab, the number of toolbar edits and
  \* the number of user gestures so far
  orders, edits, gestures,
  \* the number of grid edits and table-button clicks so far, and the last one
  \* (its handler, and the row and the field edited or the tag selected)
  tableOps, tableOp,
  \* order blotter: the server's list, and per browser tab blotterStore.orders,
  \* blotterStore.selectedIds, the WebSocket messages and REST responses on
  \* their way to it; the numbers of REST requests and of reprice broadcasts
  serverOrders, tabOrders, selectedIds, wsQueue, restReplies, requests, reprices,
  toggles,
  \* PriceSocket: this.ws (a slot, or 0 for null), the readyState of each
  \* WebSocket, _connected, _onStatusChange set, the subscribed channels,
  \* reconnectTimer, the pending timers with a lost handle, the delay of the
  \* last setTimeout
  ws, readyState, connected, statusCb, handlers, reconnectTimer, olderTimers,
  timerDelay,
  \* connectionStore.wsConnected, healthStatus, dataSource, sourceError, and
  \* whether a toggleSource call is in flight
  wsConnected, healthStatus, dataSource, sourceError, togglePending,
  \* whether useWebSocket is mounted and how often it was; the server accepting
  \* connections; the numbers of dropped connections and of outages
  mounted, mounts, serverUp, drops, outages,
  \* PriceSocket.handlers per channel in insertion order, the unsubscribe
  \* closures returned so far, the last message received and the handlers it
  \* invoked
  subs, unsubFns, lastMsg, invoked

aggVars == <<aggLegs, aggOut>>

displayVars == <<tableData, header, brokerQuote, currentStructure>>

toolbarVars ==
  <<underlying, structureType, stockRef, delta, brokerPrice, quoteSide, quantity>>

pricerVars ==
  <<orderText, displayVars, parseError, tableError, toolbarVars, loading, pnp,
    repriceCalls, orders, edits, gestures, tableOps, tableOp>>

blotterVars ==
  <<serverOrders, tabOrders, selectedIds, wsQueue, restReplies, requests, reprices,
    toggles>>

socketVars ==
  <<ws, readyState, connected, statusCb, handlers, reconnectTimer, olderTimers,
    timerDelay, wsConnected, healthStatus, mounted, mounts, serverUp, drops, outages,
    dataSource, sourceError, togglePending>>

storeVars == <<healthStatus, dataSource, sourceError, togglePending>>

muxVars == <<subs, unsubFns, lastMsg, invoked>>

vars == <<aggVars, pricerVars, blotterVars, socketVars, muxVars>>

nonAggVars == <<pricerVars, blotterVars, socketVars, muxVars>>

nonPricerVars == <<aggVars, blotterVars, socketVars, muxVars>>

nonBlotterVars == <<aggVars, pricerVars, socketVars, muxVars>>

nonSocketVars == <<aggVars, pricerVars, blotterVars, muxVars>>

nonMuxVars == <<aggVars, pricerVars, blotterVars, socketVars>>

(***************************************************************************)
(* Tagged nullable numbers                                                 *)
(***************************************************************************)
None == [tag |-> "none"]

Num(n) == [tag |-> "num", v |-> n]

IsNum(x) == x.tag = "num"

(***************************************************************************)
(* JavaScript numeric conversions                                          *)
(***************************************************************************)
NaN == [tag |-> "nan"]

DigitChars == <<"0", "1", "2", "3", "4", "5", "6", "7", "8", "9">>

IsDigit(c) == \E d \in 1..10 : DigitChars[d] = c

DigitVal(c) == (CHOOSE d \in 1..10 : DigitChars[d] = c) - 1

Abs(n) == IF n < 0 THEN -n ELSE n

RECURSIVE NatToStr(_)
\* decimal digits of a natural number
NatToStr(n) ==
  IF n < 10 THEN <<DigitChars[n + 1]>>
  ELSE NatToStr(n \div 10) \o <<DigitChars[(n % 10) + 1]>>

RECURSIVE DigitRun(_, _)
\* number of consecutive digits of s starting at position i
DigitRun(s, i) ==
  IF i <= Len(s) /\ IsDigit(s[i]) THEN 1 + DigitRun(s, i + 1) ELSE 0

RECURSIVE DigitsValue(_, _, _)
\* value of the n digits of s starting at position i
DigitsValue(s, i, n) ==
  IF n = 0 THEN 0
  ELSE DigitsValue(s, i, n - 1) * 10 + DigitVal(s[i + n - 1])

\* thousandths denoted by the fraction digits s[i .. i+n-1] (digits past the
\* third are dropped: the inputs of the model carry at most three)
FracValue(s, i, n) ==
  IF n = 0 THEN 0
  ELSE IF n = 1 THEN DigitsValue(s, i, 1) * 100
  ELSE IF n = 2 THEN DigitsValue(s, i, 2) * 10
  ELSE DigitsValue(s, i, 3)

\* parseFloat(s): the longest prefix  -?digits*(.digits*)?  holding a digit
\* (leading blanks, "+", exponents and "Infinity" are not modelled)
ParseFloat(s) ==
  LET neg   == Len(s) >= 1 /\ s[1] = "-"
      start == IF neg THEN 2 ELSE 1
      ni    == DigitRun(s, start)
      dot   == start + ni
      nf    == IF dot <= Len(s) /\ s[dot] = "." THEN DigitRun(s, dot + 1) ELSE 0
      mag   == DigitsValue(s, start, ni) * 1000 + FracValue(s, dot + 1, nf)
  IN  IF ni + nf = 0 THEN NaN ELSE IF neg THEN Num(-mag) ELSE Num(mag)

\* parseInt(s): the longest prefix  -?digits+ ; the rest is ignored
ParseInt(s) ==
  LET neg   == Len(s) >= 1 /\ s[1] = "-"
      start == IF neg THEN 2 ELSE 1
      ni    == DigitRun(s, start)
      mag   == DigitsValue(s, start, ni) * 1000
  IN  IF ni = 0 THEN NaN ELSE IF neg THEN Num(-mag) ELSE Num(mag)

\* Number(s) for the strings of the model: "" is 0, a full numeral its
\* value, anything else NaN
ToNumber(s) ==
  IF s = <<>> THEN Num(0)
  ELSE LET neg   == s[1] = "-"
           start == IF neg THEN 2 ELSE 1
           ni    == DigitRun(s, start)
           dot   == start + ni
           nf    == IF dot <= Len(s) /\ s[dot] = "." THEN DigitRun(s, dot + 1) ELSE 0
           used  == (start - 1) + ni + (IF nf > 0 THEN nf + 1 ELSE 0)
       IN  IF ni + nf = 0 \/ used # Len(s) THEN NaN ELSE ParseFloat(s)

\* fraction digits of String(n): three digits with the trailing zeros removed
FracDigits(f) ==
  LET d3 == <<DigitChars[(f \div 100) + 1], DigitChars[((f \div 10) % 10) + 1],
              DigitChars[(f % 10) + 1]>>
  IN  IF f % 10 # 0 THEN d3
      ELSE IF f % 100 # 0 THEN SubSeq(d3, 1, 2)
      ELSE SubSeq(d3, 1, 1)

\* String(n) of a finite number
NumToString(n) ==
  LET a == Abs(n)
  IN  (IF n < 0 THEN <<"-">> ELSE <<>>)
      \o NatToStr(a \div 1000)
      \o (IF a % 1000 = 0 THEN <<>> ELSE <<".">> \o FracDigits(a % 1000))

\* n.toFixed(2): sign, then the magnitude rounded to hundredths (a tie goes
\* up), always two fraction digits.  (-0.004).toFixed(2) is "-0.00".
ToFixed2(n) ==
  LET a == Abs(n)
      c == (a + 5) \div 10
  IN  (IF n < 0 THEN <<"-">> ELSE <<>>)
      \o NatToStr(c \div 100)
      \o <<".", DigitChars[((c \div 10) % 10) + 1], DigitChars[(c % 10) + 1]>>

\* whether a parsed number is falsy (NaN or 0)
Falsy(x) == x = NaN \/ x.v = 0

(***************************************************************************)
(* Structure aggregator (structure_pricer.py; modelled from the design     *)
(* document, section 4.3).  A leg is [ratio, bid, offer]; quotes are in    *)
(* thousandths and tagged.                                                 *)
(***************************************************************************)
MaxLegs == 2

LegRatios == {-2, -1, 1, 2}

LegQuoteValues == {None, Num(0), Num(1000), Num(3000)}

LegQuotes == [ratio : LegRatios, bid : LegQuoteValues, offer : LegQuoteValues]

LegSets == UNION {[1..n -> LegQuotes] : n \in 1..MaxLegs}

RECURSIVE SumSeq(_)
SumSeq(s) == IF s = <<>> THEN 0 ELSE Head(s) + SumSeq(Tail(s))

\* the leg quote a side of the structure fills at: the structure bid buys a
\* long leg at its offer and sells a short leg at its bid
BidFill(l) == IF l.ratio > 0 THEN l.offer ELSE l.bid

\* the mirror fill for the structure offer
OfferFill(l) == IF l.ratio > 0 THEN l.bid ELSE l.offer

StructureBidPartial(legs) ==
  Num(SumSeq([i \in 1..Len(legs) |->
        IF IsNum(BidFill(legs[i])) THEN (-legs[i].ratio) * BidFill(legs[i]).v ELSE 0]))

\* structure bid = sum over legs of -ratio * fill, unavailable when any fill is
StructureBid(legs) ==
  IF \E i \in 1..Len(legs) : ~IsNum(BidFill(legs[i])) THEN None
  ELSE Num(SumSeq([i \in 1..Len(legs) |-> (-legs[i].ratio) * BidFill(legs[i]).v]))

StructureOfferSwapped(legs) ==
  IF \E i \in 1..Len(legs) : ~IsNum(OfferFill(legs[i])) THEN None
  ELSE Num(SumSeq([i \in 1..Len(legs) |-> legs[i].ratio * OfferFill(legs[i]).v]))

\* structure offer = the mirror sum, unavailable when any fill is
StructureOffer(legs) ==
  IF \E i \in 1..Len(legs) : ~IsNum(OfferFill(legs[i])) THEN None
  ELSE Num(SumSeq([i \in 1..Len(legs) |-> (-legs[i].ratio) * OfferFill(legs[i]).v]))

\* midpoint of bid and offer when both exist
StructureMid(b, o) ==
  IF IsNum(b) /\ IsNum(o) THEN Num((b.v + o.v) \div 2) ELSE None

StructureQuote(legs) ==
  LET b == StructureBid(legs)
      o == StructureOffer(legs)
  IN  [bid |-> b, offer |-> o, mid |-> StructureMid(b, o)]

NotComputed == [tag |-> "pending"]

AggInit ==
  /\ aggLegs \in LegSets
  /\ aggOut = NotComputed

\* no aggregation call is modelled
AggIdle ==
  /\ aggLegs = <<>>
  /\ aggOut = NotComputed

\* one legs-to-aggregate call
Aggregate ==
  /\ aggOut = NotComputed
  /\ aggOut' = StructureQuote(aggLegs)
  /\ UNCHANGED aggLegs

AggDone == aggOut # NotComputed

AggLegIdx == 1..Len(aggLegs)

\* C3: a side of the structure is unavailable whenever a leg quote it fills
\* at is unavailable (never a number summed from the other legs), and bid,
\* offer and mid are all unavailable when every leg quote is unavailable.
C3_UnavailabilityPropagates ==
  AggDone =>
    /\ (\E i \in AggLegIdx : ~IsNum(BidFill(aggLegs[i]))) => aggOut.bid = None
    /\ (\E i \in AggLegIdx : ~IsNum(OfferFill(aggLegs[i]))) => aggOut.offer = None
    /\ (~IsNum(aggOut.bid) \/ ~IsNum(aggOut.offer)) => aggOut.mid = None
    /\ (\A i \in AggLegIdx : aggLegs[i].bid = None /\ aggLegs[i].offer = None)
         => (aggOut.bid = None /\ aggOut.offer = None /\ aggOut.mid = None)

\* a two-leg structure with one fill missing: the bid is unavailable although
\* the other leg is fully quoted, and the offer is still a number
C3_Witness ==
  /\ AggDone
  /\ Len(aggLegs) = 2
  /\ ~IsNum(BidFill(aggLegs[1]))
  /\ IsNum(aggLegs[2].bid) /\ IsNum(aggLegs[2].offer)
  /\ aggOut.bid = None
  /\ IsNum(aggOut.offer)

Uncrossed(l) == (IsNum(l.bid) /\ IsNum(l.offer)) => l.bid.v <= l.offer.v

Range(seq) == {seq[i] : i \in 1..Len(seq)}

Null == [tag |-> "null"]

Undefined == [tag |-> "undefined"]

\* a string held where the type is  number | string
Str(s) == [tag |-> "str", s |-> s]

\* x != null
NotNullish(x) == x # Null /\ x # Undefined

DASHES == <<"-", "-">>

\* String.prototype.trim on a character sequence
RECURSIVE Trim(_)
Trim(s) ==
  IF s = <<>> THEN s
  ELSE IF Head(s) = " " THEN Trim(Tail(s))
  ELSE IF s[Len(s)] = " " THEN Trim(SubSeq(s, 1, Len(s) - 1))
  ELSE s

(***************************************************************************)
(* client.ts: request() and the replies of the server                      *)
(***************************************************************************)
OkReply(b) == [ok |-> TRUE, body |-> b]

\* a reply with res.ok false: its status, status text, whether its body is
\* JSON, and the body's detail ("" when the body has none)
ErrorReplies ==
  { [ok |-> FALSE, status |-> "422", statusText |-> "Unprocessable Entity",
     json |-> TRUE, detail |-> "no underlying ticker found"],
    [ok |-> FALSE, status |-> "500", statusText |-> "Internal Server Error",
     json |-> FALSE, detail |-> ""],
    [ok |-> FALSE, status |-> "502", statusText |-> "",
     json |-> TRUE, detail |-> ""] }

NoReply == [ok |-> TRUE, body |-> Null]

RequestErrorStatusOnly(r) == "HTTP " \o r.status

\* the message of the Error request() throws:  body.detail || `HTTP ${status}`
RequestError(r) ==
  LET detail == IF r.json THEN r.detail ELSE r.statusText
  IN  IF detail # "" THEN detail ELSE "HTTP " \o r.status

(***************************************************************************)
(* The server's /parse and /price replies (api/routes; typed by            *)
(* ParseResponse and PriceResponse)                                        *)
(***************************************************************************)
Jun26 == <<"J", "u", "n", "2", "6">>

Jun26Date == <<"2", "0", "2", "6", "-", "0", "6", "-", "1", "6">>

ParsedLeg(strike, type, side, ratio) ==
  [expiry |-> Jun26Date, strike |-> strike, option_type |-> type, side |-> side,
   quantity |-> ratio, ratio |-> ratio]

\* "AAPL Jun26 240/220 PS vs250.32 15d 500x @ 3.50" and "UBER Jun26 45P 3dp"
ParseResponses ==
  { [underlying |-> "AAPL", structure_name |-> "Put Spread",
     legs |-> <<ParsedLeg(240000, "put", "buy", 1000),
                ParsedLeg(220000, "put", "sell", 1000)>>,
     stock_ref |-> 250320, delta |-> 15000, price |-> 3500,
     quote_side |-> "offer", quantity |-> 500000],
    [underlying |-> "UBER", structure_name |-> "Custom",
     legs |-> <<ParsedLeg(45000, "put", "buy", 1000)>>,
     stock_ref |-> 0, delta |-> -3000, price |-> 0,
     quote_side |-> "bid", quantity |-> 0] }

\* the screen at the time of a price request: the quote cells of every leg
\* row and of the Structure row, and the structure quote
Markets ==
  { [legCells |-> [bid_size |-> "10", bid |-> "1.20", mid |-> "1.25",
                   offer |-> "1.30", offer_size |-> "20"],
     structCells |-> [bid_size |-> "10", bid |-> "0.00", mid |-> "1.25",
                      offer |-> "2.51", offer_size |-> "20"],
     bid |-> Num(0), mid |-> Num(1254), offer |-> Num(2508),
     bid_size |-> Num(10000), offer_size |-> Num(20000), stock_price |-> 251000],
    [legCells |-> [bid_size |-> "--", bid |-> "--", mid |-> "--",
                   offer |-> "1.30", offer_size |-> "5"],
     structCells |-> [bid_size |-> "--", bid |-> "--", mid |-> "--",
                      offer |-> "-1.25", offer_size |-> "5"],
     bid |-> None, mid |-> None, offer |-> Num(-1250),
     bid_size |-> None, offer_size |-> Num(5000), stock_price |-> 49500] }

LegLabel(i) == "Leg " \o DigitChars[i + 1]

ExpiryLabel(date) == IF date = Jun26Date THEN Jun26 ELSE date

Row(label, expiry, strike, type, ratio, cells) ==
  [leg |-> label, expiry |-> expiry, strike |-> strike, type |-> type,
   ratio |-> ratio, bid_size |-> cells.bid_size, bid |-> cells.bid,
   mid |-> cells.mid, offer |-> cells.offer, offer_size |-> cells.offer_size]

ToUpperSide(s) == IF s = "bid" THEN "BID" ELSE IF s = "offer" THEN "OFFER" ELSE s

\* the leg rows of the PriceResponse to a price request under market m
ResponseLegRows(req, m) ==
  [i \in 1..Len(req.legs) |->
     Row(LegLabel(i), ExpiryLabel(req.legs[i].expiry), Num(req.legs[i].strike),
         IF req.legs[i].option_type = "call" THEN "C" ELSE "P",
         Num(IF req.legs[i].side = "buy" THEN req.legs[i].ratio
             ELSE -req.legs[i].ratio),
         m.legCells)]

\* the PriceResponse to a price request under market m: one row per leg of
\* the request, then the Structure row.  current_structure.priced_legs is
\* history, not data of the program: the leg rows of the response the
\* structure quote was computed with.
PriceResponse(req, m) ==
  [table_data |->
     ResponseLegRows(req, m)
     \o <<Row("Structure", <<>>, Str(<<>>), "", Str(<<>>), m.structCells)>>,
   header |-> [underlying |-> req.underlying, structure_name |-> req.structure_name,
               stock_ref |-> req.stock_ref, stock_price |-> m.stock_price,
               delta |-> req.delta],
   broker_quote |->
     IF req.price > 0
     THEN [broker_price |-> req.price, quote_side |-> ToUpperSide(req.quote_side),
           screen_mid |-> m.mid,
           edge |-> IF IsNum(m.mid) THEN Num(req.price - m.mid.v) ELSE None]
     ELSE Null,
   current_structure |->
     [underlying |-> req.underlying, structure_name |-> req.structure_name,
      structure_detail |-> "Jun26", bid |-> m.bid, mid |-> m.mid, offer |-> m.offer,
      bid_size |-> m.bid_size, offer_size |-> m.offer_size, multiplier |-> 100000,
      priced_legs |-> ResponseLegRows(req, m)]]

\* the body of POST /price that priceStructure builds from a ParseResponse
PriceStructureRequest(parsed) ==
  [underlying |-> parsed.underlying, structure_name |-> parsed.structure_name,
   legs |-> parsed.legs, stock_ref |-> parsed.stock_ref, delta |-> parsed.delta,
   price |-> parsed.price, quote_side |-> parsed.quote_side,
   quantity |-> parsed.quantity]

(***************************************************************************)
(* pricerStore.ts                                                          *)
(***************************************************************************)
T(type, ratio) == [type |-> type, ratio |-> ratio]

STRUCTURE_TEMPLATES ==
  [call |-> <<T("C", 1)>>,
   put |-> <<T("P", 1)>>,
   put_spread |-> <<T("P", 1), T("P", -1)>>,
   call_spread |-> <<T("C", 1), T("C", -1)>>,
   risk_reversal |-> <<T("P", -1), T("C", 1)>>,
   straddle |-> <<T("C", 1), T("P", 1)>>,
   strangle |-> <<T("P", 1), T("C", 1)>>,
   butterfly |-> <<T("C", 1), T("C", -2), T("C", 1)>>,
   put_fly |-> <<T("P", 1), T("P", -2), T("P", 1)>>,
   call_fly |-> <<T("C", 1), T("C", -2), T("C", 1)>>,
   iron_butterfly |-> <<T("P", 1), T("P", -1), T("C", -1), T("C", 1)>>,
   iron_condor |-> <<T("P", 1), T("P", -1), T("C", -1), T("C", 1)>>,
   put_condor |-> <<T("P", 1), T("P", -1), T("P", -1), T("P", 1)>>,
   call_condor |-> <<T("C", 1), T("C", -1), T("C", -1), T("C", 1)>>,
   collar |-> <<T("P", 1), T("C", -1)>>,
   call_spread_collar |-> <<T("P", 1), T("C", -1), T("C", 1)>>,
   put_spread_collar |-> <<T("P", -1), T("P", 1), T("C", -1)>>,
   put_stupid |-> <<T("P", 1), T("P", 1)>>,
   call_stupid |-> <<T("C", 1), T("C", 1)>>]

emptyRow(i) ==
  [leg |-> LegLabel(i), expiry |-> <<>>, strike |-> Str(<<>>), type |-> "",
   ratio |-> Num(1000), bid_size |-> "", bid |-> "", mid |-> "", offer |-> "",
   offer_size |-> ""]

\* name.toLowerCase().replace(/ /g, '_') on the structure names of the model
StructName(name) ==
  CASE name = "Put Spread" -> "put_spread"
    [] name = "put spread" -> "put_spread"
    [] name = "Custom" -> "custom"
    [] OTHER -> name

\* tag.replace(/_/g, ' ') on the structure tags of the model
TagWords(tag) ==
  CASE tag = "put_spread" -> "put spread"
    [] tag = "call_spread" -> "call spread"
    [] OTHER -> tag

\* text.trim() of the free-text fields of the model
TrimText(s) == IF s = "  " THEN "" ELSE s

\* text.toUpperCase() of the underlyings of the model
UpperText(s) == IF s = "msft" THEN "MSFT" ELSE s

\* String(n) of a parsed number, or '' when the guard fails
TextIf(cond, n) == IF cond THEN NumToString(n) ELSE <<>>

\* the last gesture was not one on the table or the toolbar
NoTableOp == [name |-> "", row |-> 0, field |-> ""]

PnPIdle(r) == [pc |-> "idle", parsed |-> Null, reply |-> r]

PricerInit ==
  /\ orderText = ""
  /\ tableData = <<emptyRow(1), emptyRow(2)>>
  /\ header = Null
  /\ brokerQuote = Null
  /\ currentStructure = Null
  /\ parseError = ""
  /\ tableError = ""
  /\ underlying = ""
  /\ structureType = ""
  /\ stockRef = <<>>
  /\ delta = <<>>
  /\ brokerPrice = <<>>
  /\ quoteSide = "bid"
  /\ quantity = <<>>
  /\ loading = FALSE
  /\ pnp = PnPIdle(NoReply)
  /\ repriceCalls = {}
  /\ orders = <<>>
  /\ edits = 0
  /\ gestures = 0
  /\ tableOps = 0
  /\ tableOp = NoTableOp

IsStructureRow(r) == r.leg = "Structure"

IsNotStructureRow(r) == r.leg # "Structure"

\* the table applyPriceResponse stores: the leg rows, then the first
\* Structure row if there is one
PinnedTable(rows) ==
  LET legRows    == SelectSeq(rows, IsNotStructureRow)
      structRows == SelectSeq(rows, IsStructureRow)
  IN  IF structRows # <<>> THEN Append(legRows, Head(structRows)) ELSE legRows

applyPriceResponse(res) ==
  /\ tableData' = PinnedTable(res.table_data)
  /\ header' = res.header
  /\ brokerQuote' = res.broker_quote
  /\ currentStructure' = res.current_structure

OrderTexts == {"  ", "AAPL Jun26 240/220 PS vs250.32 15d 500x @ 3.50"}

setOrderText(text) ==
  /\ orderText' = text
  /\ UNCHANGED <<displayVars, parseError, tableError, toolbarVars, loading, pnp,
                 repriceCalls, orders, edits>>

\* parseAndPrice up to its first await (one call at a time is modelled)
parseAndPrice ==
  /\ pnp.pc = "idle"
  /\ IF TrimText(orderText) = ""
     THEN /\ parseError' = "Please enter an order."
          /\ UNCHANGED <<loading, tableError, pnp>>
     ELSE /\ loading' = TRUE
          /\ parseError' = ""
          /\ tableError' = ""
          /\ pnp' = [pc |-> "parse", parsed |-> Null, reply |-> NoReply]
  /\ UNCHANGED <<orderText, displayVars, toolbarVars, repriceCalls, orders, edits>>

PnPCatchPartial(r) ==
  /\ loading' = FALSE
  /\ parseError' = RequestError(r)
  /\ pnp' = PnPIdle(r)
  /\ underlying' = IF pnp.parsed # Null THEN pnp.parsed.underlying ELSE "?"
  /\ UNCHANGED <<orderText, displayVars, tableError, structureType, stockRef, delta,
                 brokerPrice, quoteSide, quantity, repriceCalls, orders, edits>>

\* the catch block of parseAndPrice, for the reply r that made request() throw
PnPCatch(r) ==
  /\ loading' = FALSE
  /\ parseError' = RequestError(r)
  /\ pnp' = PnPIdle(r)
  /\ UNCHANGED <<orderText, displayVars, tableError, toolbarVars, repriceCalls,
                 orders, edits>>

\* api.parseOrder settles with reply r
ParseReturns(r) ==
  /\ pnp.pc = "parse"
  /\ IF r.ok
     THEN /\ pnp' = [pc |-> "price", parsed |-> r.body, reply |-> NoReply]
          /\ UNCHANGED <<orderText, displayVars, parseError, tableError, toolbarVars,
                         loading, repriceCalls, orders, edits>>
     ELSE PnPCatch(r)

\* api.priceStructure settles with reply r
PriceReturns(r) ==
  /\ pnp.pc = "price"
  /\ IF r.ok
     THEN LET parsed     == pnp.parsed
              structName == StructName(parsed.structure_name)
          IN  /\ loading' = FALSE
              /\ parseError' = ""
              /\ underlying' = parsed.underlying
              /\ structureType' =
                   IF structName \in DOMAIN STRUCTURE_TEMPLATES THEN structName ELSE ""
              /\ stockRef' = TextIf(parsed.stock_ref > 0, parsed.stock_ref)
              /\ delta' = TextIf(parsed.delta # 0, parsed.delta)
              /\ brokerPrice' = TextIf(parsed.price > 0, parsed.price)
              /\ quoteSide' = parsed.quote_side
              /\ quantity' = TextIf(parsed.quantity > 0, parsed.quantity)
              /\ applyPriceResponse(r.body)
              /\ pnp' = PnPIdle(NoReply)
              /\ UNCHANGED <<orderText, tableError, repriceCalls, orders, edits>>
     ELSE PnPCatch(r)

ParseReplies == {OkReply(p) : p \in ParseResponses} \cup ErrorReplies

PriceReplies(req) == {OkReply(PriceResponse(req, m)) : m \in Markets} \cup ErrorReplies

(***************************************************************************)
(* repriceFromTable                                                        *)
(***************************************************************************)
MonthMap(m) ==
  CASE m = <<"J", "a", "n">> -> <<"0", "1">>
    [] m = <<"F", "e", "b">> -> <<"0", "2">>
    [] m = <<"M", "a", "r">> -> <<"0", "3">>
    [] m = <<"A", "p", "r">> -> <<"0", "4">>
    [] m = <<"M", "a", "y">> -> <<"0", "5">>
    [] m = <<"J", "u", "n">> -> <<"0", "6">>
    [] m = <<"J", "u", "l">> -> <<"0", "7">>
    [] m = <<"A", "u", "g">> -> <<"0", "8">>
    [] m = <<"S", "e", "p">> -> <<"0", "9">>
    [] m = <<"O", "c", "t">> -> <<"1", "0">>
    [] m = <<"N", "o", "v">> -> <<"1", "1">>
    [] m = <<"D", "e", "c">> -> <<"1", "2">>
    [] OTHER -> <<>>

Min(a, b) == IF a < b THEN a ELSE b

\* s.slice(0, 3) and s.slice(3)
Slice03(s) == SubSeq(s, 1, Min(3, Len(s)))

SliceFrom3(s) == SubSeq(s, 4, Len(s))

\* Number(x) of a table cell
CellNumber(x) == IF x.tag \in {"num", "nan"} THEN x ELSE ToNumber(x.s)

\* r.leg.startsWith('Leg'), on the row labels of the model
IsLegRow(r) == r.leg \in {LegLabel(i) : i \in 1..9}

\* the rows the loop of repriceFromTable does not skip
RowSent(row) ==
  LET expiry == Trim(row.expiry)
  IN  /\ expiry # <<>>
      /\ ~Falsy(CellNumber(row.strike))
      /\ row.type # ""
      /\ ~Falsy(CellNumber(row.ratio))
      /\ MonthMap(Slice03(expiry)) # <<>>
      /\ SliceFrom3(expiry) # <<>>

\* `${2000 + parseInt(yearStr)}-${month}-16`
ExpiryDate(expiry) ==
  LET yy == ParseInt(SliceFrom3(expiry))
  IN  (IF yy = NaN THEN <<"N", "a", "N">> ELSE NumToString(2000000 + yy.v))
      \o <<"-">> \o MonthMap(Slice03(expiry)) \o <<"-", "1", "6">>

LegOfRowSignedQuantity(row) ==
  LET ratio == CellNumber(row.ratio).v
  IN  [expiry |-> ExpiryDate(Trim(row.expiry)),
       strike |-> CellNumber(row.strike).v,
       option_type |-> IF row.type = "C" THEN "call" ELSE "put",
       side |-> IF ratio > 0 THEN "buy" ELSE "sell",
       quantity |-> ratio,
       ratio |-> Abs(ratio)]

LegOfRow(row) ==
  LET ratio == CellNumber(row.ratio).v
  IN  [expiry |-> ExpiryDate(Trim(row.expiry)),
       strike |-> CellNumber(row.strike).v,
       option_type |-> IF row.type = "C" THEN "call" ELSE "put",
       side |-> IF ratio > 0 THEN "buy" ELSE "sell",
       quantity |-> Abs(ratio),
       ratio |-> Abs(ratio)]

IsSentLegRow(r) == IsLegRow(r) /\ RowSent(r)

BuildLegs(tbl) ==
  LET sent == SelectSeq(tbl, IsSentLegRow)
  IN  [i \in 1..Len(sent) |-> LegOfRow(sent[i])]

\* x || fallback, for a parsed number
OrElse(x, fallback) == IF Falsy(x) THEN fallback ELSE x.v

\* the body of POST /price that repriceFromTable builds
RepriceRequest(tbl, u, st, sr, d, bp, qs, q) ==
  [underlying |-> UpperText(TrimText(u)),
   structure_name |-> TagWords(IF st # "" THEN st ELSE "custom"),
   legs |-> BuildLegs(tbl),
   stock_ref |-> OrElse(ParseFloat(sr), 0),
   delta |-> OrElse(ParseFloat(d), 0),
   price |-> OrElse(ParseFloat(bp), 0),
   quote_side |-> IF qs # "" THEN qs ELSE "bid",
   quantity |-> OrElse(ParseInt(q), 1000)]

MaxInFlight == 1

CanReprice == Cardinality(repriceCalls) < MaxInFlight

\* repriceFromTable up to its await, reading the store as this step leaves it
repriceFromTable(tbl, u, st, sr, d, bp, qs, q) ==
  IF TrimText(u) = "" \/ BuildLegs(tbl) = <<>>
  THEN UNCHANGED <<tableError, loading, repriceCalls>>
  ELSE /\ tableError' = ""
       /\ loading' = TRUE
       /\ repriceCalls' =
            repriceCalls \cup {RepriceRequest(tbl, u, st, sr, d, bp, qs, q)}

\* api.priceFromTable(req) settles with reply r
RepriceReturns(req, r) ==
  /\ req \in repriceCalls
  /\ repriceCalls' = repriceCalls \ {req}
  /\ loading' = FALSE
  /\ IF r.ok
     THEN /\ applyPriceResponse(r.body)
          /\ UNCHANGED tableError
     ELSE /\ tableError' = RequestError(r)
          /\ UNCHANGED displayVars
  /\ UNCHANGED <<orderText, parseError, toolbarVars, pnp, orders, edits>>

(***************************************************************************)
(* PricerToolbar (shown once a header exists)                              *)
(***************************************************************************)
MaxToolbarEdits == 1

ToolbarInputs ==
  ({"underlying"} \X {"", "msft"})
  \cup ({"stockRef"} \X {<<"0">>, <<"6", "9", ".", "8", "6">>})
  \cup ({"delta"} \X {<<"-", "1", "5">>})
  \cup ({"brokerPrice"} \X {<<"0", ".", "4", "1">>})
  \cup ({"quantity"} \X {<<"2", ".", "5">>, <<"1", "0", "5", "8">>, <<"-", "5">>, <<"0">>})

Pick(field, name, value, old) == IF field = name THEN value ELSE old

\* onChange of a text or number input: setToolbarField(field, value)
ToolbarChange(field, value) ==
  /\ header # Null
  /\ edits < MaxToolbarEdits
  /\ edits' = edits + 1
  /\ underlying' = Pick(field, "underlying", value, underlying)
  /\ stockRef' = Pick(field, "stockRef", value, stockRef)
  /\ delta' = Pick(field, "delta", value, delta)
  /\ brokerPrice' = Pick(field, "brokerPrice", value, brokerPrice)
  /\ quantity' = Pick(field, "quantity", value, quantity)
  /\ UNCHANGED <<orderText, displayVars, parseError, tableError, structureType,
                 quoteSide, loading, pnp, repriceCalls, orders>>

\* onBlur of a text or number input: repriceFromTable()
ToolbarBlur ==
  /\ header # Null
  /\ CanReprice
  /\ repriceFromTable(tableData, underlying, structureType, stockRef, delta,
                      brokerPrice, quoteSide, quantity)
  /\ UNCHANGED <<orderText, displayVars, parseError, toolbarVars, pnp, orders, edits>>

\* onChange of the Side select: setToolbarField('quoteSide', v), repriceFromTable()
SideChange(v) ==
  /\ header # Null
  /\ CanReprice
  /\ edits < MaxToolbarEdits
  /\ edits' = edits + 1
  /\ quoteSide' = v
  /\ repriceFromTable(tableData, underlying, structureType, stockRef, delta,
                      brokerPrice, v, quantity)
  /\ UNCHANGED <<orderText, displayVars, parseError, underlying, structureType,
                 stockRef, delta, brokerPrice, quantity, pnp, orders>>

clearAll ==
  /\ orderText' = ""
  /\ tableData' = <<emptyRow(1), emptyRow(2)>>
  /\ header' = Null
  /\ brokerQuote' = Null
  /\ currentStructure' = Null
  /\ parseError' = ""
  /\ tableError' = ""
  /\ underlying' = ""
  /\ structureType' = ""
  /\ stockRef' = <<>>
  /\ delta' = <<>>
  /\ brokerPrice' = <<>>
  /\ quoteSide' = "bid"
  /\ quantity' = <<>>
  /\ UNCHANGED <<loading, pnp, repriceCalls, orders, edits>>

(***************************************************************************)
(* AddOrderButton.handleAdd and BlotterGrid.onRowClicked / recallOrder     *)
(***************************************************************************)
MaxOrders == 1

FormatPriceZeroForNull(x) == IF IsNum(x) THEN ToFixed2(x.v) ELSE ToFixed2(0)

\* x != null ? x.toFixed(2) : '--'
FormatPrice(x) == IF IsNum(x) THEN ToFixed2(x.v) ELSE DASHES

\* x != null ? String(x) : '--'
FormatSize(x) == IF IsNum(x) THEN NumToString(x.v) ELSE DASHES

\* sideMap[quoteSide] || ''
SideLabel(qs) == IF qs = "bid" THEN "Bid" ELSE IF qs = "offer" THEN "Offered" ELSE ""

\* n || undefined
OrUndefined(n) == IF Falsy(n) THEN Undefined ELSE n

NewOrderTruncatedStockRef ==
  LET cs == currentStructure
  IN  [id |-> Len(orders) + 1,
       added_time |-> "now",
       underlying |-> cs.underlying,
       structure |-> cs.structure_name \o " " \o cs.structure_detail,
       bid |-> FormatPrice(cs.bid),
       mid |-> FormatPrice(cs.mid),
       offer |-> FormatPrice(cs.offer),
       bid_size |-> FormatSize(cs.bid_size),
       offer_size |-> FormatSize(cs.offer_size),
       side |-> SideLabel(quoteSide),
       size |-> quantity,
       traded |-> "No",
       bought_sold |-> "",
       traded_price |-> "",
       initiator |-> "",
       pnl |-> "",
       multiplier |-> cs.multiplier,
       _table_data |-> tableData,
       _underlying |-> underlying,
       _structure_type |-> structureType,
       _stock_ref |-> OrUndefined(ParseInt(stockRef)),
       _delta |-> OrUndefined(ParseFloat(delta)),
       _broker_price |-> OrUndefined(ParseFloat(brokerPrice)),
       _quote_side |-> quoteSide,
       _quantity |-> OrUndefined(ParseInt(quantity)),
       _current_structure |-> cs]

\* the BlotterOrder handleAdd builds from the store (genId and the clock are
\* stood for by the order's position and "now")
NewOrder ==
  LET cs == currentStructure
  IN  [id |-> Len(orders) + 1,
       added_time |-> "now",
       underlying |-> cs.underlying,
       structure |-> cs.structure_name \o " " \o cs.structure_detail,
       bid |-> FormatPrice(cs.bid),
       mid |-> FormatPrice(cs.mid),
       offer |-> FormatPrice(cs.offer),
       bid_size |-> FormatSize(cs.bid_size),
       offer_size |-> FormatSize(cs.offer_size),
       side |-> SideLabel(quoteSide),
       size |-> quantity,
       traded |-> "No",
       bought_sold |-> "",
       traded_price |-> "",
       initiator |-> "",
       pnl |-> "",
       multiplier |-> cs.multiplier,
       _table_data |-> tableData,
       _underlying |-> underlying,
       _structure_type |-> structureType,
       _stock_ref |-> OrUndefined(ParseFloat(stockRef)),
       _delta |-> OrUndefined(ParseFloat(delta)),
       _broker_price |-> OrUndefined(ParseFloat(brokerPrice)),
       _quote_side |-> quoteSide,
       _quantity |-> OrUndefined(ParseInt(quantity)),
       _current_structure |-> cs]

\* handleAdd: the order is posted and the blotter takes the server's list
\* (the stored order reads back as it was written: JSON drops the undefined
\* fields, which then read as undefined again)
handleAdd ==
  /\ currentStructure # Null
  /\ Len(orders) < MaxOrders
  /\ orders' = Append(orders, NewOrder)
  /\ UNCHANGED <<orderText, displayVars, parseError, tableError, toolbarVars,
                 loading, pnp, repriceCalls, edits>>

\* the fields recallOrder(order) sets
Recalled(order) ==
  LET cs == order._current_structure
      bp == order._broker_price
  IN  [tableData |-> order._table_data,
       underlying |-> order._underlying,
       structureType |-> order._structure_type,
       stockRef |-> IF IsNum(order._stock_ref) THEN NumToString(order._stock_ref.v) ELSE <<>>,
       delta |-> IF IsNum(order._delta) THEN NumToString(order._delta.v) ELSE <<>>,
       brokerPrice |-> IF IsNum(bp) THEN NumToString(bp.v) ELSE <<>>,
       quoteSide |-> IF order._quote_side # "" THEN order._quote_side ELSE "bid",
       quantity |-> IF IsNum(order._quantity) THEN NumToString(order._quantity.v) ELSE <<>>,
       currentStructure |-> cs,
       header |->
         IF cs # Null
         THEN [underlying |-> cs.underlying, structure_name |-> cs.structure_name,
               stock_ref |-> IF IsNum(order._stock_ref) THEN order._stock_ref.v ELSE 0,
               stock_price |-> 0,
               delta |-> IF IsNum(order._delta) THEN order._delta.v ELSE 0]
         ELSE Null,
       brokerQuote |->
         IF IsNum(bp) /\ bp.v > 0 /\ cs # Null /\ IsNum(cs.mid)
         THEN [broker_price |-> bp.v,
               quote_side |-> ToUpperSide(IF order._quote_side # "" THEN order._quote_side
                                          ELSE "bid"),
               screen_mid |-> cs.mid,
               edge |-> Num(bp.v - cs.mid.v)]
         ELSE Null]

\* onRowClicked on the i-th blotter row: recallOrder(order)
recallOrder(i) ==
  /\ i \in 1..Len(orders)
  /\ LET r == Recalled(orders[i])
     IN  /\ tableData' = r.tableData
         /\ underlying' = r.underlying
         /\ structureType' = r.structureType
         /\ stockRef' = r.stockRef
         /\ delta' = r.delta
         /\ brokerPrice' = r.brokerPrice
         /\ quoteSide' = r.quoteSide
         /\ quantity' = r.quantity
         /\ currentStructure' = r.currentStructure
         /\ header' = r.header
         /\ brokerQuote' = r.brokerQuote
  /\ parseError' = ""
  /\ tableError' = ""
  /\ UNCHANGED <<orderText, loading, pnp, repriceCalls, orders, edits>>

(***************************************************************************)
(* The pricing table: the Structure select, the StructureBuilder buttons   *)
(* and the cell editors of PricingGrid                                     *)
(***************************************************************************)
MaxTableOps == 2

MaxRows == 4

\* the values of the Structure select: Custom, then STRUCTURE_TYPE_OPTIONS
STRUCTURE_TYPE_OPTIONS_WithCustom ==
  <<"custom", "call", "put", "put_spread", "call_spread", "risk_reversal", "straddle",
    "strangle", "butterfly", "put_fly", "call_fly", "iron_butterfly", "iron_condor",
    "put_condor", "call_condor", "collar", "call_spread_collar", "put_spread_collar",
    "put_stupid", "call_stupid">>

STRUCTURE_TYPE_OPTIONS ==
  <<"call", "put", "put_spread", "call_spread", "risk_reversal", "straddle",
    "strangle", "butterfly", "put_fly", "call_fly", "iron_butterfly", "iron_condor",
    "put_condor", "call_condor", "collar", "call_spread_collar", "put_spread_collar",
    "put_stupid", "call_stupid">>

StructureSelectValues == {""} \cup Range(STRUCTURE_TYPE_OPTIONS)

\* template.map((t, i) => ({ ...emptyRow(i + 1), type: t.type, ratio: t.ratio }))
TemplateRowsUnsigned(template) ==
  [i \in 1..Len(template) |->
     [emptyRow(i) EXCEPT !.type = template[i].type,
                         !.ratio = Num(1000 * Abs(template[i].ratio))]]

TemplateRows(template) ==
  [i \in 1..Len(template) |->
     [emptyRow(i) EXCEPT !.type = template[i].type,
                         !.ratio = Num(1000 * template[i].ratio)]]

\* onChange of the Structure select: applyTemplate(structureType)
applyTemplate(tag) ==
  /\ header # Null
  /\ IF tag \in DOMAIN STRUCTURE_TEMPLATES
     THEN /\ tableData' = TemplateRows(STRUCTURE_TEMPLATES[tag])
          /\ structureType' = tag
     ELSE UNCHANGED <<tableData, structureType>>
  /\ UNCHANGED <<orderText, header, brokerQuote, currentStructure, parseError,
                 tableError, underlying, stockRef, delta, brokerPrice, quoteSide,
                 quantity, loading, pnp, repriceCalls, orders, edits>>

\* click on "+ Row"
addRowAfterStructure ==
  LET rows == SelectSeq(tableData, IsNotStructureRow)
  IN  /\ Len(rows) < MaxRows
      /\ tableData' = Append(tableData, emptyRow(Len(rows) + 1))
      /\ UNCHANGED <<orderText, header, brokerQuote, currentStructure, parseError,
                     tableError, toolbarVars, loading, pnp, repriceCalls, orders, edits>>

addRow ==
  LET rows == SelectSeq(tableData, IsNotStructureRow)
  IN  /\ Len(rows) < MaxRows
      /\ tableData' = Append(rows, emptyRow(Len(rows) + 1))
      /\ UNCHANGED <<orderText, header, brokerQuote, currentStructure, parseError,
                     tableError, toolbarVars, loading, pnp, repriceCalls, orders, edits>>

\* click on "- Row"
removeRow ==
  LET rows == SelectSeq(tableData, IsNotStructureRow)
  IN  /\ tableData' = IF Len(rows) > 1 THEN SubSeq(rows, 1, Len(rows) - 1) ELSE rows
      /\ UNCHANGED <<orderText, header, brokerQuote, currentStructure, parseError,
                     tableError, toolbarVars, loading, pnp, repriceCalls, orders, edits>>

\* -Number(x) of a ratio cell
Negated(x) ==
  LET n == CellNumber(x)
  IN  IF n = NaN THEN NaN ELSE Num(-n.v)

FlippedRow(row) ==
  IF IsLegRow(row) /\ row.ratio # Str(<<>>) /\ row.ratio # Num(0)
  THEN [row EXCEPT !.ratio = Negated(row.ratio)]
  ELSE row

\* delta ? String(-parseFloat(delta)) : ''
FlippedDelta(d) ==
  IF d = <<>> THEN <<>>
  ELSE IF ParseFloat(d) = NaN THEN <<"N", "a", "N">>
  ELSE NumToString(-(ParseFloat(d).v))

\* click on "Flip"
flipStructure ==
  LET newRows  == [i \in 1..Len(tableData) |-> FlippedRow(tableData[i])]
      newDelta == FlippedDelta(delta)
  IN  /\ CanReprice
      /\ tableData' = newRows
      /\ delta' = newDelta
      /\ IF TrimText(underlying) # ""
         THEN repriceFromTable(newRows, underlying, structureType, stockRef, newDelta,
                               brokerPrice, quoteSide, quantity)
         ELSE UNCHANGED <<tableError, loading, repriceCalls>>
      /\ UNCHANGED <<orderText, header, brokerQuote, currentStructure, parseError,
                     underlying, structureType, stockRef, brokerPrice, quoteSide,
                     quantity, pnp, orders, edits>>

\* what the cell editors of the grid can commit
GridInputs ==
  ({"expiry"} \X {Jun26})
  \cup ({"strike"} \X {Str(<<"4", "5">>), Str(<<"0">>), Str(<<"-", "5">>), Str(<<"x">>)})
  \cup ({"type"} \X {"C"})
  \cup ({"ratio"} \X {Str(<<"-", "2">>), Str(<<"0">>)})

\* the row after the editor wrote value into its field
EditedRow(row, field, value) ==
  CASE field = "expiry" -> [row EXCEPT !.expiry = value]
    [] field = "strike" -> [row EXCEPT !.strike = value]
    [] field = "type" -> [row EXCEPT !.type = value]
    [] field = "ratio" -> [row EXCEPT !.ratio = value]

\* tableData.find((r) => r.leg === 'Structure'), as a list of at most one row
FoundStructureRow(tbl) ==
  LET s == SelectSeq(tbl, IsStructureRow)
  IN  IF s = <<>> THEN <<>> ELSE <<s[1]>>

\* onCellValueChanged after the editor of row i of the grid committed value:
\* the grid's rows, then the Structure row, then repriceFromTable()
onCellValueChangedStaleTable(i, field, value) ==
  LET legRows == SelectSeq(tableData, IsNotStructureRow)
  IN  /\ i \in 1..Len(legRows)
      /\ legRows[i][field] # value
      /\ CanReprice
      /\ LET rows == [legRows EXCEPT ![i] = EditedRow(legRows[i], field, value)]
                     \o FoundStructureRow(tableData)
         IN  /\ tableData' = rows
             /\ repriceFromTable(tableData, underlying, structureType, stockRef, delta,
                                 brokerPrice, quoteSide, quantity)
      /\ UNCHANGED <<orderText, header, brokerQuote, currentStructure, parseError,
                     toolbarVars, pnp, orders, edits>>

onCellValueChanged(i, field, value) ==
  LET legRows == SelectSeq(tableData, IsNotStructureRow)
  IN  /\ i \in 1..Len(legRows)
      /\ legRows[i][field] # value
      /\ CanReprice
      /\ LET rows == [legRows EXCEPT ![i] = EditedRow(legRows[i], field, value)]
                     \o FoundStructureRow(tableData)
         IN  /\ tableData' = rows
             /\ repriceFromTable(rows, underlying, structureType, stockRef, delta,
                                 brokerPrice, quoteSide, quantity)
      /\ UNCHANGED <<orderText, header, brokerQuote, currentStructure, parseError,
                     toolbarVars, pnp, orders, edits>>

MaxGestures == 5

\* a handler run by a user gesture (a key, a click, a blur)
Counted(Handler) ==
  /\ gestures < MaxGestures
  /\ gestures' = gestures + 1
  /\ Handler
  /\ UNCHANGED nonPricerVars

Gesture(Handler) == Counted(Handler) /\ tableOp' = NoTableOp /\ UNCHANGED tableOps

\* a promise of an earlier handler settling
Settles(Continuation) ==
  Continuation /\ UNCHANGED <<gestures, tableOps, tableOp, nonPricerVars>>

\* a grid edit or a click on a table button
TableGesture(name, row, field, Handler) ==
  /\ tableOps < MaxTableOps
  /\ tableOps' = tableOps + 1
  /\ tableOp' = [name |-> name, row |-> row, field |-> field]
  /\ Counted(Handler)

\* a change, a blur or a selection in the toolbar
ToolbarGesture(name, field, Handler) ==
  /\ tableOp' = [name |-> name, row |-> 0, field |-> field]
  /\ Counted(Handler)
  /\ UNCHANGED tableOps

\* the table is followed while the server answers its requests: the replies
\* with res.ok
TableReplies(replies) == {r \in replies : r.ok}

TableNext ==
  \/ \E text \in OrderTexts : Gesture(setOrderText(text))
  \/ Gesture(parseAndPrice)
  \/ \E r \in TableReplies(ParseReplies) : Settles(ParseReturns(r))
  \/ /\ pnp.pc = "price"
     /\ \E r \in TableReplies(PriceReplies(PriceStructureRequest(pnp.parsed))) :
          Settles(PriceReturns(r))
  \/ \E req \in repriceCalls : \E r \in TableReplies(PriceReplies(req)) :
       Settles(RepriceReturns(req, r))
  \/ Gesture(clearAll)
  \/ Gesture(handleAdd)
  \/ \E i \in 1..MaxOrders : Gesture(recallOrder(i))
  \/ \E tag \in StructureSelectValues : TableGesture("applyTemplate", 0, tag, applyTemplate(tag))
  \/ TableGesture("addRow", 0, "", addRow)
  \/ TableGesture("removeRow", 0, "", removeRow)
  \/ TableGesture("flipStructure", 0, "", flipStructure)
  \/ \E i \in 1..MaxRows : \E e \in GridInputs :
       TableGesture("onCellValueChanged", i, e[1], onCellValueChanged(i, e[1], e[2]))

\* the table together with the toolbar
InputsNext ==
  \/ TableNext
  \/ \E e \in ToolbarInputs : ToolbarGesture("onChange", e[1], ToolbarChange(e[1], e[2]))
  \/ ToolbarGesture("onBlur", "", ToolbarBlur)
  \/ \E v \in {"bid", "offer"} : ToolbarGesture("onChange", "quoteSide", SideChange(v))

PricerNext ==
  \/ \E text \in OrderTexts : Gesture(setOrderText(text))
  \/ Gesture(parseAndPrice)
  \/ \E r \in ParseReplies : Settles(ParseReturns(r))
  \/ /\ pnp.pc = "price"
     /\ \E r \in PriceReplies(PriceStructureRequest(pnp.parsed)) : Settles(PriceReturns(r))
  \/ \E e \in ToolbarInputs : Gesture(ToolbarChange(e[1], e[2]))
  \/ Gesture(ToolbarBlur)
  \/ \E v \in {"bid", "offer"} : Gesture(SideChange(v))
  \/ \E req \in repriceCalls : \E r \in PriceReplies(req) : Settles(RepriceReturns(req, r))
  \/ Gesture(clearAll)
  \/ Gesture(handleAdd)
  \/ \E i \in 1..MaxOrders : Gesture(recallOrder(i))

(***************************************************************************)
(* Properties of the pricing table and of the requests built from it       *)
(***************************************************************************)
\* the quote columns of a row
PriceFields == {"bid", "mid", "offer"}

SizeFields == {"bid_size", "offer_size"}

\* the requests this step issued
NewRequests == repriceCalls' \ repriceCalls

\* C13: in every pricing request built from the table, each row sent has a
\* ratio that is a number other than 0, and its leg has side 'buy' exactly
\* when the ratio is positive, 'sell' exactly when it is negative, and
\* quantity and ratio both equal to the absolute value of the row's ratio.
C13_RatioSignIsSide ==
  [][\A req \in NewRequests :
       LET sent == SelectSeq(tableData', IsSentLegRow)
       IN  /\ Len(req.legs) = Len(sent)
           /\ \A i \in 1..Len(sent) :
                LET ratio == CellNumber(sent[i].ratio)
                    leg   == req.legs[i]
                IN  /\ ratio # NaN
                    /\ ratio.v # 0
                    /\ leg.side = "buy" <=> ratio.v > 0
                    /\ leg.side = "sell" <=> ratio.v < 0
                    /\ leg.quantity = Abs(ratio.v)
                    /\ leg.ratio = Abs(ratio.v)]_vars

\* a ratio cell was edited to "-2" and the request carries the row as a sell
\* leg of quantity 2 next to a buy leg
C13_Witness ==
  /\ tableOp.name = "onCellValueChanged"
  /\ tableOp.field = "ratio"
  /\ \E req \in repriceCalls :
       /\ \E i \in 1..Len(req.legs) :
            req.legs[i].side = "sell" /\ req.legs[i].quantity = 2000
       /\ \E i \in 1..Len(req.legs) : req.legs[i].side = "buy"

\* this step is the Structure select choosing tag
IsTemplateStep(tag) ==
  /\ tableOps' = tableOps + 1
  /\ tableOp'.name = "applyTemplate"
  /\ tableOp'.field = tag

BlankLegRow(row, i) ==
  /\ row.leg = LegLabel(i)
  /\ row.expiry = <<>>
  /\ row.strike = Str(<<>>)
  /\ \A f \in PriceFields \cup SizeFields : row[f] = ""

\* C14: for every recognized structure tag, applyTemplate replaces the table
\* with one row per template entry, in order, labelled 'Leg 1'..'Leg n', each
\* with the entry's option type and signed non-zero ratio and with blank
\* expiry, strike and quotes, and sets structureType to the tag; a put spread
\* gives leg 1 = put, ratio +1 and leg 2 = put, ratio -1, whatever the
\* strikes of the table were.
C14_TemplateIsPositional ==
  [][\A tag \in DOMAIN STRUCTURE_TEMPLATES :
       IsTemplateStep(tag) =>
         LET template == STRUCTURE_TEMPLATES[tag]
         IN  /\ structureType' = tag
             /\ Len(tableData') = Len(template)
             /\ \A i \in 1..Len(template) :
                  /\ BlankLegRow(tableData'[i], i)
                  /\ tableData'[i].type = template[i].type
                  /\ tableData'[i].ratio = Num(1000 * template[i].ratio)
                  /\ template[i].ratio # 0
             /\ tag = "put_spread" =>
                  /\ Len(tableData') = 2
                  /\ tableData'[1].type = "P" /\ tableData'[1].ratio = Num(1000)
                  /\ tableData'[2].type = "P" /\ tableData'[2].ratio = Num(-1000)]_vars

\* the put spread template was applied over the priced 240/220 put spread
C14_Witness ==
  /\ tableOp.name = "applyTemplate"
  /\ tableOp.field = "put_spread"
  /\ structureType = "put_spread"
  /\ header # Null
  /\ header.underlying = "AAPL"
  /\ Len(tableData) = 2
  /\ tableData[2].ratio = Num(-1000)
  /\ tableData[2].strike = Str(<<>>)

\* C15: the tags offered by STRUCTURE_TYPE_OPTIONS are exactly the keys of
\* STRUCTURE_TEMPLATES, each offered once, and selecting an offered tag
\* always replaces the table with the rows of a template of that tag.
C15_OptionsMatchTemplates ==
  [][/\ Range(STRUCTURE_TYPE_OPTIONS) = DOMAIN STRUCTURE_TEMPLATES
     /\ Cardinality(Range(STRUCTURE_TYPE_OPTIONS)) = Len(STRUCTURE_TYPE_OPTIONS)
     /\ \A tag \in Range(STRUCTURE_TYPE_OPTIONS) :
          IsTemplateStep(tag) =>
            /\ structureType' = tag
            /\ tableData' # <<>>
            /\ \A i \in 1..Len(tableData') : tableData'[i].type \in {"C", "P"}]_vars

\* the last offered tag was selected and its template is in the table
C15_Witness ==
  /\ tableOp.name = "applyTemplate"
  /\ tableOp.field = STRUCTURE_TYPE_OPTIONS[Len(STRUCTURE_TYPE_OPTIONS)]
  /\ structureType = tableOp.field
  /\ tableData = TemplateRows(STRUCTURE_TEMPLATES[tableOp.field])

\* the rows of tbl are 'Leg 1'..'Leg k' in this order, then at most one
\* 'Structure' row
StructureRowLast(tbl) ==
  LET legs == SelectSeq(tbl, IsNotStructureRow)
  IN  /\ \A i \in 1..Len(tbl) : IsStructureRow(tbl[i]) => i = Len(tbl)
      /\ \A i \in 1..Len(legs) : legs[i].leg = LegLabel(i)

\* C16: in every state the table has at most one row labelled 'Structure',
\* and when present it is the last row, after the leg rows in their order;
\* the same holds of the table kept in every order that recallOrder can
\* restore.
C16_StructureRowLast ==
  /\ StructureRowLast(tableData)
  /\ \A i \in 1..Len(orders) : StructureRowLast(orders[i]._table_data)

\* two table gestures, the second a cell edit, and the response to its
\* request put the Structure row back under the leg rows
C16_Witness ==
  /\ tableOps = 2
  /\ tableOp.name = "onCellValueChanged"
  /\ repriceCalls = {}
  /\ Len(tableData) >= 2
  /\ IsStructureRow(tableData[Len(tableData)])
  /\ \E i \in 1..Len(tableData) - 1 : tableData[i].ratio = Num(-2000)

\* this step is a committed edit: a cell of the grid, a blur of a toolbar
\* input, or a selection of the Side select
IsGridEditStep == gestures' = gestures + 1 /\ tableOp'.name = "onCellValueChanged"

IsToolbarCommitStep ==
  /\ gestures' = gestures + 1
  /\ \/ tableOp'.name = "onBlur"
     \/ tableOp'.name = "onChange" /\ tableOp'.field = "quoteSide"

\* after this step the underlying is non-blank and some row is complete
CanPriceAfter == TrimText(underlying') # "" /\ BuildLegs(tableData') # <<>>

\* the request repriceFromTable builds from the store as this step leaves it
RequestAfter ==
  RepriceRequest(tableData', underlying', structureType', stockRef', delta',
                 brokerPrice', quoteSide', quantity')

\* the row of the grid this step edited, as the step leaves it
EditedRowAfter == tableData'[tableOp'.row]

\* C17 as stated: every committed table edit, with a non-blank underlying and
\* a complete leg in the table, issues a pricing request that carries the
\* edited value.
C17_EveryEditCarried ==
  [][(IsGridEditStep /\ CanPriceAfter) =>
       \E req \in NewRequests :
         /\ RowSent(EditedRowAfter)
         /\ LegOfRow(EditedRowAfter) \in Range(req.legs)]_vars

\* C17: every committed table edit and every committed toolbar change, with
\* a non-blank underlying and a complete leg in the table, issues in the same
\* step the pricing request built from the store after the change: the
\* toolbar fields as parsed, and the edited row when that row is itself
\* complete (a row left incomplete by the edit is not in the request).
C17_EditsReprice ==
  [][((IsGridEditStep \/ IsToolbarCommitStep) /\ CanPriceAfter) =>
       /\ RequestAfter \in repriceCalls'
       /\ NewRequests \subseteq {RequestAfter}
       /\ (IsGridEditStep /\ RowSent(EditedRowAfter)) =>
            LegOfRow(EditedRowAfter) \in Range(RequestAfter.legs)]_vars

\* a strike was edited to 45 and the request in flight carries it
C17_Witness ==
  /\ tableOp.name = "onCellValueChanged"
  /\ tableOp.field = "strike"
  /\ tableData[tableOp.row].strike = Str(<<"4", "5">>)
  /\ \E req \in repriceCalls :
       /\ req.underlying = "AAPL"
       /\ \E i \in 1..Len(req.legs) : req.legs[i].strike = 45000

\* C18: every leg of a pricing request built from the table has a strike
\* that is a positive number, so no row whose strike is blank, zero,
\* non-numeric or negative is sent.
C18_StrikesPositive ==
  [][\A req \in NewRequests :
       /\ \A i \in 1..Len(req.legs) : req.legs[i].strike > 0
       /\ Len(req.legs) =
            Cardinality({j \in 1..Len(tableData') :
                           /\ IsSentLegRow(tableData'[j])
                           /\ CellNumber(tableData'[j].strike).v > 0})]_vars

\* C19: the quantity of every pricing request built by repriceFromTable is
\* a positive integer, and it is 1 when the toolbar quantity is blank, zero
\* or not a number.
C19_QuantityPositiveInteger ==
  [][\A req \in NewRequests :
       /\ req.quantity > 0
       /\ req.quantity % 1000 = 0
       /\ Falsy(ParseInt(quantity')) => req.quantity = 1000]_vars

\* the leg rows of a table
LegRowsOf(tbl) == SelectSeq(tbl, IsNotStructureRow)

\* C21: in every order saved by Add Order, the leg rows saved as _table_data
\* are the leg rows of the pricing response that the structure quote saved
\* as _current_structure (and shown in bid/mid/offer) was computed with.
C21_OneSnapshot ==
  \A i \in 1..Len(orders) :
    LET o == orders[i]
    IN  /\ LegRowsOf(o._table_data) = o._current_structure.priced_legs
        /\ \A f \in PriceFields : o[f] = FormatPrice(o._current_structure[f])

(***************************************************************************)
(* Properties of the pricer and the Add Order / recall path                *)
(***************************************************************************)
\* s is a numeral with exactly two fraction digits
TwoDecimals(s) ==
  /\ Len(s) >= 4
  /\ s[Len(s) - 2] = "."
  /\ \A k \in 1..Len(s) :
       k # Len(s) - 2 => (IsDigit(s[k]) \/ (k = 1 /\ s[k] = "-" /\ Len(s) >= 5))

C2_NoZeroPrice ==
  \A i \in 1..Len(orders) :
    \A f \in PriceFields :
      /\ orders[i][f] # <<"0", ".", "0", "0">>
      /\ orders[i]._current_structure[f] = Num(0) => orders[i][f] = DASHES

\* a toolbar number as the store means it: blank and 0 are both unset
NumberOf(s) == OrElse(ParseFloat(s), 0)

\* a quantity as the pricing request and Add Order read it
IntegerOf(s) == OrElse(ParseInt(s), 0)

\* the store after Add Order and a recall of the order it wrote
AddThenRecall == Recalled(NewOrder)

RestoredExactly(r) ==
  /\ r.tableData = tableData
  /\ r.underlying = underlying
  /\ r.structureType = structureType
  /\ r.quoteSide = quoteSide
  /\ r.currentStructure = currentStructure

\* C5 as stated: whenever Add Order is enabled, Add Order followed by
\* recallOrder of that order restores tableData, underlying, structureType,
\* quoteSide and currentStructure identically and stockRef, delta,
\* brokerPrice and quantity to numerically equal values.
C5_RoundTripNumeric ==
  currentStructure # Null =>
    /\ RestoredExactly(AddThenRecall)
    /\ NumberOf(AddThenRecall.stockRef) = NumberOf(stockRef)
    /\ NumberOf(AddThenRecall.delta) = NumberOf(delta)
    /\ NumberOf(AddThenRecall.brokerPrice) = NumberOf(brokerPrice)
    /\ NumberOf(AddThenRecall.quantity) = NumberOf(quantity)

\* C5 amended: as above, with quantity restored to the integer that parseInt
\* reads from it (its fraction is dropped).
C5_RoundTripIntegerQuantity ==
  currentStructure # Null =>
    /\ RestoredExactly(AddThenRecall)
    /\ NumberOf(AddThenRecall.stockRef) = NumberOf(stockRef)
    /\ NumberOf(AddThenRecall.delta) = NumberOf(delta)
    /\ NumberOf(AddThenRecall.brokerPrice) = NumberOf(brokerPrice)
    /\ NumberOf(AddThenRecall.quantity) = IntegerOf(quantity)

\* an order was added and recalled (only recallOrder writes a header with
\* stock_price 0), and the store holds what the order recorded
C5_Witness ==
  /\ Len(orders) = 1
  /\ header # Null
  /\ header.stock_price = 0
  /\ tableData = orders[1]._table_data
  /\ currentStructure = orders[1]._current_structure
  /\ stockRef = <<"2", "5", "0", ".", "3", "2">>
  /\ quantity = <<"5", "0", "0">>
  /\ quoteSide = "offer"

\* C6: when the parse or the price request of parseAndPrice fails, the
\* handler ends with parseError the error's message and loading false, and
\* tableData, header, brokerQuote, currentStructure and the toolbar fields
\* as they were; the price request is issued only after a successful parse.
C6_FailureLeavesDisplay ==
  [][ /\ (pnp.pc \in {"parse", "price"} /\ pnp' # pnp /\ ~pnp'.reply.ok) =>
           /\ pnp'.pc = "idle"
           /\ parseError' = RequestError(pnp'.reply)
           /\ loading' = FALSE
           /\ UNCHANGED <<displayVars, toolbarVars>>
      /\ (pnp.pc # "price" /\ pnp'.pc = "price") =>
           /\ pnp.pc = "parse"
           /\ pnp'.parsed \in ParseResponses
    ]_vars

\* a request failed after an earlier order was priced: the error shows and
\* the priced structure is still displayed
C6_Witness ==
  /\ pnp.pc = "idle"
  /\ ~pnp.reply.ok
  /\ parseError = "no underlying ticker found"
  /\ ~loading
  /\ currentStructure # Null
  /\ header # Null
  /\ underlying = "AAPL"

(***************************************************************************)
(* Order blotter: blotterStore in each browser tab, the REST order routes  *)
(* and the order_sync / blotter_prices WebSocket channels.  A request is   *)
(* served when it is sent; its response and the broadcasts travel on       *)
(* separate connections and are delivered later (REST responses in any     *)
(* order, each tab's WebSocket messages in the order sent).                *)
(***************************************************************************)
NumTabs == 2

Tabs == 1..NumTabs

MaxRequests == 2

MaxToggles == 1

MaxReprices == 1

EditableFields == {"side", "size", "traded", "bought_sold", "traded_price", "initiator"}

\* the blotter columns of an order added from the pricer
BlotterRow(id) ==
  [id |-> id, bid |-> "1.20", mid |-> "1.25", offer |-> "1.30", side |-> "Bid",
   size |-> "500", traded |-> "No", bought_sold |-> "", traded_price |-> "",
   initiator |-> ""]

\* { ...o, ...u }
Spread(o, u) ==
  [f \in DOMAIN o \cup DOMAIN u |-> IF f \in DOMAIN u THEN u[f] ELSE o[f]]

\* orders.map(o => updates[o.id] ? { ...o, ...updates[o.id] } : o)
ApplyUpdates(list, updates) ==
  [i \in 1..Len(list) |->
     IF list[i].id \in DOMAIN updates THEN Spread(list[i], updates[list[i].id])
     ELSE list[i]]

IdsOf(list) == {list[i].id : i \in 1..Len(list)}

\* the per-order payloads of a blotter_prices message: Partial<BlotterOrder>
PriceUpdates ==
  { [bid |-> "--", mid |-> "--", offer |-> "1.30"],
    [bid |-> "1.10", mid |-> "1.20", offer |-> "1.30", side |-> "Offered"] }

OrderSync(list) == [channel |-> "order_sync", data |-> list]

BlotterPrices(updates) == [channel |-> "blotter_prices", data |-> updates]

\* manager.broadcast: the message is queued on every tab's WebSocket
Broadcast(msg) == wsQueue' = [t \in Tabs |-> Append(wsQueue[t], msg)]

\* the response { orders } to request number n
OrdersReply(kind, n, list) == [kind |-> kind, req |-> n, orders |-> list]

SendRequest(t, kind, list) ==
  /\ requests < MaxRequests
  /\ requests' = requests + 1
  /\ restReplies' =
       [restReplies EXCEPT ![t] = @ \cup {OrdersReply(kind, requests + 1, list)}]

BlotterInit ==
  /\ serverOrders = <<>>
  /\ tabOrders = [t \in Tabs |-> <<>>]
  /\ selectedIds = [t \in Tabs |-> {}]
  /\ wsQueue = [t \in Tabs |-> <<>>]
  /\ restReplies = [t \in Tabs |-> {}]
  /\ requests = 0
  /\ reprices = 0
  /\ toggles = 0

\* loadOrders up to its await: GET /orders
loadOrders(t) ==
  /\ SendRequest(t, "get", serverOrders)
  /\ UNCHANGED <<serverOrders, tabOrders, selectedIds, wsQueue, reprices, toggles>>
  /\ UNCHANGED nonBlotterVars

\* addOrder up to its await: POST /orders appends and broadcasts order_sync
addOrder(t) ==
  LET list == Append(serverOrders, BlotterRow(requests + 1))
  IN  /\ SendRequest(t, "post", list)
      /\ serverOrders' = list
      /\ Broadcast(OrderSync(list))
      /\ UNCHANGED <<tabOrders, selectedIds, reprices, toggles>>
      /\ UNCHANGED nonBlotterVars

toggleSelect(t, id) ==
  /\ id \in IdsOf(tabOrders[t])
  /\ toggles < MaxToggles
  /\ toggles' = toggles + 1
  /\ selectedIds' =
       [selectedIds EXCEPT ![t] = IF id \in @ THEN @ \ {id} ELSE @ \cup {id}]
  /\ UNCHANGED <<serverOrders, tabOrders, wsQueue, restReplies, requests, reprices>>
  /\ UNCHANGED nonBlotterVars

KeepsOrder(ids, o) == o.id \notin ids

\* deleteSelected up to its await: DELETE /orders removes and broadcasts
deleteSelected(t) ==
  LET ids  == selectedIds[t]
      list == SelectSeq(serverOrders, LAMBDA o : KeepsOrder(ids, o))
  IN  /\ ids # {}
      /\ SendRequest(t, "delete", list)
      /\ serverOrders' = list
      /\ Broadcast(OrderSync(list))
      /\ UNCHANGED <<tabOrders, selectedIds, reprices, toggles>>
      /\ UNCHANGED nonBlotterVars

\* the continuation of loadOrders / addOrder / deleteSelected: set({ orders })
RestDelivered(t, r) ==
  /\ r \in restReplies[t]
  /\ restReplies' = [restReplies EXCEPT ![t] = @ \ {r}]
  /\ tabOrders' = [tabOrders EXCEPT ![t] = r.orders]
  /\ selectedIds' = IF r.kind = "delete" THEN [selectedIds EXCEPT ![t] = {}]
                    ELSE selectedIds
  /\ UNCHANGED <<serverOrders, wsQueue, requests, reprices, toggles>>
  /\ UNCHANGED nonBlotterVars

\* blotterStore.setOrders
setOrders(t, list) == tabOrders' = [tabOrders EXCEPT ![t] = list]

\* blotterStore.updatePrices
updatePrices(t, updates) ==
  tabOrders' = [tabOrders EXCEPT ![t] = ApplyUpdates(@, updates)]

\* PriceSocket.onmessage for the next message of tab t, dispatched to the
\* handler useWebSocket subscribed on its channel
WsDelivered(t) ==
  /\ wsQueue[t] # <<>>
  /\ wsQueue' = [wsQueue EXCEPT ![t] = Tail(@)]
  /\ IF Head(wsQueue[t]).channel = "order_sync"
     THEN setOrders(t, Head(wsQueue[t]).data)
     ELSE updatePrices(t, Head(wsQueue[t]).data)
  /\ UNCHANGED <<serverOrders, selectedIds, restReplies, requests, reprices, toggles>>
  /\ UNCHANGED nonBlotterVars

\* the background task reprices the blotter and broadcasts blotter_prices
ServerReprice(u) ==
  LET updates == [id \in IdsOf(serverOrders) |-> u]
  IN  /\ reprices < MaxReprices
      /\ serverOrders # <<>>
      /\ reprices' = reprices + 1
      /\ serverOrders' = ApplyUpdates(serverOrders, updates)
      /\ Broadcast(BlotterPrices(updates))
      /\ UNCHANGED <<tabOrders, selectedIds, restReplies, requests, toggles>>
      /\ UNCHANGED nonBlotterVars

BlotterNext ==
  \/ \E t \in Tabs : loadOrders(t)
  \/ \E t \in Tabs : addOrder(t)
  \/ \E t \in Tabs : \E id \in 1..MaxRequests : toggleSelect(t, id)
  \/ \E t \in Tabs : deleteSelected(t)
  \/ \E t \in Tabs : \E r \in restReplies[t] : RestDelivered(t, r)
  \/ \E t \in Tabs : WsDelivered(t)
  \/ \E u \in PriceUpdates : ServerReprice(u)

(***************************************************************************)
(* Properties of the blotter                                               *)
(***************************************************************************)
\* the step is updatePrices applied in tab t
IsPriceUpdate(t) ==
  /\ wsQueue[t] # <<>>
  /\ Head(wsQueue[t]).channel = "blotter_prices"
  /\ wsQueue'[t] = Tail(wsQueue[t])

\* C7: a blotter_prices message applied through updatePrices leaves every
\* order's side, size, traded, bought_sold, traded_price and initiator as
\* they were.
C7_PriceUpdateKeepsEdits ==
  [][ \A t \in Tabs :
        IsPriceUpdate(t) =>
          /\ Len(tabOrders'[t]) = Len(tabOrders[t])
          /\ \A i \in 1..Len(tabOrders[t]) :
               \A f \in EditableFields : tabOrders'[t][i][f] = tabOrders[t][i][f]
    ]_vars

\* every response and broadcast has been delivered
Quiescent == \A t \in Tabs : wsQueue[t] = <<>> /\ restReplies[t] = {}

\* C8: once every REST response and every broadcast has been delivered, in
\* whatever order, each tab's orders equal the server's list.
C8_TabsConverge == Quiescent => \A t \in Tabs : tabOrders[t] = serverOrders

(***************************************************************************)
(* PriceSocket, the useWebSocket hook and connectionStore.  A WebSocket    *)
(* object lives in a slot of readyState from its construction until its    *)
(* close event has been handled.  reconnectTimer is "none" (null), or the  *)
(* handle of a timer that is still "pending", or a "stale" handle (fired   *)
(* or cleared); olderTimers counts the pending timers whose handle was     *)
(* overwritten.                                                            *)
(***************************************************************************)
MaxSockets == 3

MaxMounts == 2

MaxDrops == 3

MaxOutages == 2

\* the delay of setTimeout(() => this.connect(), 2000), in milliseconds
ReconnectDelayMs == 2000

NoSocket == 0

Slots == 1..MaxSockets

HookChannels == {"blotter_prices", "health", "order_sync"}

HealthStatuses == {"ok", "error"}

DataSources == {"Mock Data", "Bloomberg API"}

SocketInit ==
  /\ ws = NoSocket
  /\ readyState = [s \in Slots |-> "free"]
  /\ connected = FALSE
  /\ wsConnected = FALSE
  /\ statusCb = FALSE
  /\ handlers = {}
  /\ reconnectTimer = "none"
  /\ olderTimers = 0
  /\ timerDelay = 0
  /\ healthStatus = "ok"
  /\ dataSource = "Mock Data"
  /\ sourceError = ""
  /\ togglePending = FALSE
  /\ mounted = FALSE
  /\ mounts = 0
  /\ serverUp = TRUE
  /\ drops = 0
  /\ outages = 0

\* this._onStatusChange?.(x), the callback being setWsConnected
StatusChange(x) == wsConnected' = IF statusCb THEN x ELSE wsConnected

\* the readyState map after WebSocket.close() on the socket s (null: none)
Close(rs, s) ==
  IF s # NoSocket /\ rs[s] \in {"connecting", "open"}
  THEN [rs EXCEPT ![s] = IF @ = "connecting" THEN "aborting" ELSE "closing"]
  ELSE rs

FreeSlot == CHOOSE s \in Slots : readyState[s] = "free" /\ \A r \in 1..(s - 1) : readyState[r] # "free"

\* PriceSocket.connect(), starting from the readyState map rs
connect(rs) ==
  IF ws # NoSocket
  THEN /\ ws' = ws
       /\ readyState' = rs
  ELSE /\ ws' = FreeSlot
       /\ readyState' = [rs EXCEPT ![FreeSlot] = "connecting"]

oncloseNoRetry ==
  /\ connected' = FALSE
  /\ StatusChange(FALSE)
  /\ ws' = NoSocket
  /\ UNCHANGED <<reconnectTimer, olderTimers, timerDelay>>

\* ws.onclose
onclose ==
  /\ connected' = FALSE
  /\ StatusChange(FALSE)
  /\ ws' = NoSocket
  /\ reconnectTimer' = "pending"
  /\ olderTimers' = olderTimers + (IF reconnectTimer = "pending" THEN 1 ELSE 0)
  /\ timerDelay' = ReconnectDelayMs

\* the task the browser runs when socket s has closed: readyState CLOSED,
\* then the error event if there was an error (ws.onerror: this.ws?.close()),
\* then the close event
SocketClosed(s, withError) ==
  /\ LET rs == [readyState EXCEPT ![s] = "free"]
     IN  readyState' = IF withError THEN Close(rs, ws) ELSE rs
  /\ onclose

\* ws.onopen: the server accepted the connection
SocketOpens(s) ==
  /\ readyState[s] = "connecting"
  /\ serverUp
  /\ readyState' = [readyState EXCEPT ![s] = "open"]
  /\ connected' = TRUE
  /\ StatusChange(TRUE)
  /\ UNCHANGED <<ws, statusCb, handlers, reconnectTimer, olderTimers, timerDelay,
                 storeVars, mounted, mounts, serverUp, drops, outages>>
  /\ UNCHANGED nonSocketVars

\* the connection attempt fails: error and close events
ConnectFails(s) ==
  /\ readyState[s] = "connecting"
  /\ ~serverUp
  /\ SocketClosed(s, TRUE)
  /\ UNCHANGED <<statusCb, handlers, storeVars, mounted, mounts, serverUp, drops,
                 outages>>
  /\ UNCHANGED nonSocketVars

\* an open connection drops, with or without an error event
ConnectionLost(s, withError) ==
  /\ readyState[s] = "open"
  /\ drops < MaxDrops
  /\ drops' = drops + 1
  /\ SocketClosed(s, withError)
  /\ UNCHANGED <<statusCb, handlers, storeVars, mounted, mounts, serverUp, outages>>
  /\ UNCHANGED nonSocketVars

\* a socket closed by close() finishes closing
CloseCompletes(s) ==
  /\ readyState[s] \in {"closing", "aborting"}
  /\ SocketClosed(s, readyState[s] = "aborting")
  /\ UNCHANGED <<statusCb, handlers, storeVars, mounted, mounts, serverUp, drops,
                 outages>>
  /\ UNCHANGED nonSocketVars

\* the timer reconnectTimer refers to fires: this.connect()
TimerFires ==
  /\ reconnectTimer = "pending"
  /\ reconnectTimer' = "stale"
  /\ connect(readyState)
  /\ UNCHANGED <<connected, wsConnected, statusCb, handlers, olderTimers, timerDelay,
                 storeVars, mounted, mounts, serverUp, drops, outages>>
  /\ UNCHANGED nonSocketVars

\* a timer whose handle was overwritten fires: this.connect()
OlderTimerFires ==
  /\ olderTimers > 0
  /\ olderTimers' = olderTimers - 1
  /\ connect(readyState)
  /\ UNCHANGED <<connected, wsConnected, statusCb, handlers, reconnectTimer,
                 timerDelay, storeVars, mounted, mounts, serverUp, drops, outages>>
  /\ UNCHANGED nonSocketVars

\* ws.onmessage for a health message: dispatched to the channel's handlers
\* (setHealth)
HealthMessage(s, source, status) ==
  /\ readyState[s] = "open"
  /\ healthStatus' = IF "health" \in handlers THEN status ELSE healthStatus
  /\ dataSource' = IF "health" \in handlers THEN source ELSE dataSource
  /\ UNCHANGED <<ws, readyState, connected, wsConnected, statusCb, handlers,
                 reconnectTimer, olderTimers, timerDelay, mounted, mounts, serverUp,
                 drops, outages, sourceError, togglePending>>
  /\ UNCHANGED nonSocketVars

\* the effect of useWebSocket: onStatusChange, connect, the three subscribes
Mount ==
  /\ ~mounted
  /\ mounts < MaxMounts
  /\ mounts' = mounts + 1
  /\ mounted' = TRUE
  /\ statusCb' = TRUE
  /\ connect(readyState)
  /\ handlers' = handlers \cup HookChannels
  /\ UNCHANGED <<connected, wsConnected, reconnectTimer, olderTimers, timerDelay,
                 storeVars, serverUp, drops, outages>>
  /\ UNCHANGED nonSocketVars

\* the cleanup of the effect: the unsubscribes, then PriceSocket.disconnect()
Unmount ==
  /\ mounted
  /\ mounted' = FALSE
  /\ handlers' = handlers \ HookChannels
  /\ reconnectTimer' = IF reconnectTimer = "pending" THEN "stale" ELSE reconnectTimer
  /\ readyState' = Close(readyState, ws)
  /\ ws' = NoSocket
  /\ connected' = FALSE
  /\ UNCHANGED <<wsConnected, statusCb, olderTimers, timerDelay, storeVars, mounts,
                 serverUp, drops, outages>>
  /\ UNCHANGED nonSocketVars

\* the server stops accepting connections, and accepts them again
ServerGoesDown ==
  /\ serverUp
  /\ outages < MaxOutages
  /\ outages' = outages + 1
  /\ serverUp' = FALSE
  /\ UNCHANGED <<ws, readyState, connected, wsConnected, statusCb, handlers,
                 reconnectTimer, olderTimers, timerDelay, storeVars, mounted,
                 mounts, drops>>
  /\ UNCHANGED nonSocketVars

ServerComesUp ==
  /\ ~serverUp
  /\ serverUp' = TRUE
  /\ UNCHANGED <<ws, readyState, connected, wsConnected, statusCb, handlers,
                 reconnectTimer, olderTimers, timerDelay, storeVars, mounted,
                 mounts, drops, outages>>
  /\ UNCHANGED nonSocketVars

\* toggleSource up to its await: POST /toggle-source (one call at a time)
ToggleSource ==
  /\ ~togglePending
  /\ togglePending' = TRUE
  /\ UNCHANGED <<ws, readyState, connected, wsConnected, statusCb, handlers,
                 reconnectTimer, olderTimers, timerDelay, mounted, mounts, serverUp,
                 drops, outages, healthStatus, dataSource, sourceError>>
  /\ UNCHANGED nonSocketVars

\* the responses of POST /toggle-source: the source now selected, and the
\* error when Bloomberg could not be selected
ToggleReplies ==
  {OkReply([source |-> "Bloomberg API", error |-> ""]),
   OkReply([source |-> "Mock Data", error |-> ""]),
   OkReply([source |-> "Mock Data", error |-> "Bloomberg not available"])}
  \cup ErrorReplies

\* api.toggleSource settles with reply r
ToggleReturns(r) ==
  /\ togglePending
  /\ togglePending' = FALSE
  /\ IF r.ok
     THEN /\ dataSource' = r.body.source
          /\ sourceError' = r.body.error
     ELSE /\ sourceError' = RequestError(r)
          /\ UNCHANGED dataSource
  /\ UNCHANGED <<ws, readyState, connected, wsConnected, statusCb, handlers,
                 reconnectTimer, olderTimers, timerDelay, mounted, mounts, serverUp,
                 drops, outages, healthStatus>>
  /\ UNCHANGED nonSocketVars

\* the client is never disconnected: no cleanup, so no close() of a live socket
ReconnectNext ==
  \/ Mount
  \/ \E s \in Slots : SocketOpens(s)
  \/ \E s \in Slots : ConnectFails(s)
  \/ \E s \in Slots : \E e \in BOOLEAN : ConnectionLost(s, e)
  \/ TimerFires
  \/ \E s \in Slots : \E src \in DataSources : \E h \in HealthStatuses :
       HealthMessage(s, src, h)
  \/ ServerGoesDown
  \/ ServerComesUp

SocketNext ==
  \/ ReconnectNext
  \/ Unmount
  \/ \E s \in Slots : CloseCompletes(s)
  \/ OlderTimerFires

\* the socket with the health channel, and the source toggle of the header
HealthNext ==
  \/ ReconnectNext
  \/ ToggleSource
  \/ \E r \in ToggleReplies : ToggleReturns(r)

\* AlertBanner renders (it returns null otherwise)
AlertBannerHiddenForBloomberg == dataSource = "Bloomberg API" \/ healthStatus = "ok"

AlertBannerHidden == dataSource # "Bloomberg API" \/ healthStatus = "ok"

\* the background colour of HealthBadge
BadgeColor ==
  IF dataSource = "Bloomberg API"
  THEN (IF healthStatus = "ok" THEN "statusLive" ELSE "statusError")
  ELSE "statusMock"

\* a pending timer fires, and a connection attempt ends
ReconnectFairness ==
  /\ WF_vars(TimerFires)
  /\ WF_vars(\E s \in Slots : SocketOpens(s))
  /\ WF_vars(\E s \in Slots : ConnectFails(s))

(***************************************************************************)
(* Properties of the WebSocket client                                      *)
(***************************************************************************)
\* the step handles the close of a socket (its slot is released)
SocketClosedStep == \E s \in Slots : readyState[s] # "free" /\ readyState'[s] = "free"

\* the step is the reconnect timer firing
TimerFiredStep == reconnectTimer = "pending" /\ reconnectTimer' = "stale"

\* this.ws is an open WebSocket
HoldsOpenSocket == ws # NoSocket /\ readyState[ws] = "open"

\* C9: while the client is never disconnected, every close or error of the
\* socket leaves no socket and a pending reconnect timer of 2000 ms; the
\* timer firing starts a new connection attempt; the hook's handlers stay
\* subscribed; and if the server accepts connections from some point on, the
\* client is eventually connected and stays connected.
C9_ReconnectsAfterDelay ==
  /\ [][SocketClosedStep =>
          /\ ws' = NoSocket
          /\ reconnectTimer' = "pending"
          /\ timerDelay' = ReconnectDelayMs]_vars
  /\ [][TimerFiredStep => (ws' # NoSocket /\ readyState'[ws'] = "connecting")]_vars
  /\ [](mounted => handlers = HookChannels)
  /\ (<>[]serverUp) => <>[](mounted => (connected /\ wsConnected /\ HoldsOpenSocket))

\* the connection dropped, the timer fired and the client is connected again
\* with its handlers
C9_Witness ==
  /\ drops > 0
  /\ outages > 0
  /\ reconnectTimer = "stale"
  /\ timerDelay = ReconnectDelayMs
  /\ connected
  /\ HoldsOpenSocket
  /\ handlers = HookChannels

\* C12: the alert banner is shown, and the health badge is red, exactly when
\* the data source is 'Bloomberg API' and the health status is not 'ok'; so
\* once the status is 'ok' the banner is hidden and the badge is not red
\* (green for Bloomberg), and with the mock source the banner is never shown.
C12_BannerIffBloombergFailure ==
  /\ ~AlertBannerHidden <=> (dataSource = "Bloomberg API" /\ healthStatus # "ok")
  /\ BadgeColor = "statusError" <=> (dataSource = "Bloomberg API" /\ healthStatus # "ok")
  /\ healthStatus = "ok" =>
       /\ AlertBannerHidden
       /\ BadgeColor # "statusError"
       /\ dataSource = "Bloomberg API" => BadgeColor = "statusLive"
  /\ dataSource = "Mock Data" => AlertBannerHidden

\* a health message reported a Bloomberg failure: banner shown, badge red
C12_Witness ==
  /\ dataSource = "Bloomberg API"
  /\ healthStatus = "error"
  /\ ~AlertBannerHidden
  /\ BadgeColor = "statusError"
  /\ connected

\* C10: wsConnected and PriceSocket.connected are true exactly when the
\* client holds an open WebSocket.
C10_IndicatorIffOpen ==
  /\ wsConnected <=> HoldsOpenSocket
  /\ connected <=> HoldsOpenSocket

\* the sockets that are connecting or open
LiveSockets == {s \in Slots : readyState[s] \in {"connecting", "open"}}

\* C20: under every interleaving of connect(), disconnect(), the reconnect
\* timer and the events of earlier sockets, at most one WebSocket of the
\* client is connecting or open, so that no broadcast reaches a handler
\* over two sockets.
C20_AtMostOneLiveSocket == Cardinality(LiveSockets) <= 1

(***************************************************************************)
(* PriceSocket channel multiplexing: handlers (Map<channel, Set<handler>>, *)
(* a Set iterating in insertion order), the unsubscribe closures handed    *)
(* out, and the handlers the last message invoked                          *)
(***************************************************************************)
Channels == {"health", "order_sync"}

Handlers == {"h1", "h2"}

MaxMessages == 2


IsNot(h, x) == x # h

Without(seq, h) == SelectSeq(seq, LAMBDA x : IsNot(h, x))

MuxInit ==
  /\ subs = [c \in Channels |-> <<>>]
  /\ unsubFns = {}
  /\ lastMsg = [n |-> 0, channel |-> "", wellFormed |-> FALSE]
  /\ invoked = {}

\* subscribe(channel, handler): Set.add, and the closure it returns
subscribe(c, h) ==
  /\ subs' = [subs EXCEPT ![c] = IF h \in Range(@) THEN @ ELSE Append(@, h)]
  /\ unsubFns' = unsubFns \cup {<<c, h>>}
  /\ UNCHANGED <<lastMsg, invoked>>
  /\ UNCHANGED nonMuxVars

\* a closure returned by subscribe is called: handlers.get(channel)?.delete(handler)
unsubscribe(c, h) ==
  /\ <<c, h>> \in unsubFns
  /\ subs' = [subs EXCEPT ![c] = Without(@, h)]
  /\ UNCHANGED <<unsubFns, lastMsg, invoked>>
  /\ UNCHANGED nonMuxVars

\* the handlers forEach calls before an exception leaves it: those up to and
\* including the first one that throws
Dispatched(seq, throwing) ==
  {seq[i] : i \in {k \in 1..Len(seq) : \A j \in 1..(k - 1) : seq[j] \notin throwing}}

\* ws.onmessage: JSON.parse and the forEach over the channel's handlers, both
\* inside one try whose catch ignores the exception; the handlers in throwing
\* throw on this message
onmessage(c, wellFormed, throwing) ==
  /\ lastMsg.n < MaxMessages
  /\ lastMsg' = [n |-> lastMsg.n + 1, channel |-> c, wellFormed |-> wellFormed]
  /\ invoked' = IF wellFormed THEN Dispatched(subs[c], throwing) ELSE {}
  /\ UNCHANGED <<subs, unsubFns>>
  /\ UNCHANGED nonMuxVars

MuxNext ==
  \/ \E c \in Channels : \E h \in Handlers : subscribe(c, h)
  \/ \E c \in Channels : \E h \in Handlers : unsubscribe(c, h)
  \/ \E c \in Channels : \E ok \in BOOLEAN : \E throwing \in SUBSET Handlers :
       onmessage(c, ok, throwing)

\* the step is the receipt of a message
IsMessageStep == lastMsg'.n # lastMsg.n

\* C11: a well-formed message on channel c invokes every handler subscribed
\* to c at that time and no other handler; a handler stops being subscribed
\* to c only by a call of an unsubscribe function for c, which touches no
\* other channel, and is then not invoked for c.
C11_DeliveredToSubscribers ==
  [][ /\ (IsMessageStep /\ lastMsg'.wellFormed) =>
           invoked' = Range(subs[lastMsg'.channel])
      /\ IsMessageStep => invoked' \subseteq Range(subs[lastMsg'.channel])
      /\ \A c \in Channels : \A h \in Handlers :
           (h \in Range(subs[c]) /\ h \notin Range(subs'[c])) =>
             (<<c, h>> \in unsubFns /\ \A d \in Channels \ {c} : subs'[d] = subs[d])
    ]_vars

(***************************************************************************)
(* Specifications: each one runs one part of the system and holds the      *)
(* others in their initial state                                           *)
(***************************************************************************)
InitAgg == AggInit /\ PricerInit /\ BlotterInit /\ SocketInit /\ MuxInit

NextAgg == Aggregate /\ UNCHANGED nonAggVars

SpecAgg == InitAgg /\ [][NextAgg]_vars

InitPricer == PricerInit /\ AggIdle /\ BlotterInit /\ SocketInit /\ MuxInit

SpecPricer == InitPricer /\ [][PricerNext]_vars

SpecTable == InitPricer /\ [][TableNext]_vars

SpecInputs == InitPricer /\ [][InputsNext]_vars

InitBlotter == BlotterInit /\ AggIdle /\ PricerInit /\ SocketInit /\ MuxInit

SpecBlotter == InitBlotter /\ [][BlotterNext]_vars

InitSocket == SocketInit /\ AggIdle /\ PricerInit /\ BlotterInit /\ MuxInit

SpecReconnect == InitSocket /\ [][ReconnectNext]_vars /\ ReconnectFairness

SpecSocket == InitSocket /\ [][SocketNext]_vars

SpecHealth == InitSocket /\ [][HealthNext]_vars

InitMux == MuxInit /\ AggIdle /\ PricerInit /\ BlotterInit /\ SocketInit

SpecMux == InitMux /\ [][MuxNext]_vars
====
